---- MODULE Spec2Model ----
(***************************************************************************)
(* Model of the iOS-contact sync worker (src/src/auth.ts): the protect     *)
(* gate, the zod payload validator, the field normalizer, the property-set *)
(* builder, the organization resolver, the contact upserter and the error  *)
(* translator, running against a Notion-like store.                        *)
(*                                                                         *)
(* JavaScript objects are functions whose DOMAIN is the set of keys that   *)
(* are present: a key that is undefined is a key outside the DOMAIN.       *)
(***************************************************************************)
EXTENDS Integers, Sequences, FiniteSets, TLC

VARIABLES
    req,        \* req[r]: the HTTP request r as received (Empty before arrival)
    pc,         \* pc[r]: where request r is suspended
    loc,        \* loc[r]: the handler's local variables of request r
    resp,       \* resp[r]: the HTTP response of request r (Empty until sent)
    calls,      \* calls[r]: the store calls request r has issued, in order
    after,      \* after[r]: the requests already answered when r arrived
    orgs,       \* the store's organizations collection, in query order
    contacts,   \* the store's contacts collection, in query order
    nextId,     \* the next page id the store assigns
    nIn,        \* normalizer harness: the payload under test
    nOut        \* normalizer harness: the handler's derived values for nIn

vars == <<req, pc, loc, resp, calls, after, orgs, contacts, nextId, nIn, nOut>>

-----------------------------------------------------------------------------
(* Bounds of the model                                                     *)

NumRequests == 2        \* requests that may be in flight together
MaxInitContacts == 2    \* contacts named Doe/Jane the store holds initially
MaxEntries == 2         \* entries per labeled collection in the harness

Requests == 1..NumRequests

-----------------------------------------------------------------------------
(* JavaScript values                                                       *)

Empty == [k \in {} |-> ""]

Has(o, k) == k \in DOMAIN o

\* `x && ...` / `if (x)` on a string | undefined: undefined and "" are falsy
Truthy(o, k) == Has(o, k) /\ o[k] # ""

\* a key that is present only when c holds (conditional spread)
Opt(k, c, v) == IF c THEN k :> v ELSE Empty

Maybe(S) == {<<>>} \cup {<<s>> : s \in S}

Field(k, o) == IF o = <<>> THEN Empty ELSE k :> o[1]

SeqsUpTo(S, n) == UNION {[1..m -> S] : m \in 0..n}

-----------------------------------------------------------------------------
(* The field normalizer (handler lines 115-151)                            *)

\* mutant: the last matching entry is taken
LastLabeled(o, k, labels) ==
    IF ~Has(o, k) THEN <<>>
    ELSE LET m == SelectSeq(o[k], LAMBDA e : Has(e, "label") /\ e.label \in labels)
         IN  IF Len(m) = 0 THEN <<>> ELSE <<m[Len(m)]>>

\* xs?.filter(e => labels.includes(e?.label))[0], as a sequence of 0 or 1 entry
FirstLabeled(o, k, labels) ==
    IF ~Has(o, k) THEN <<>>
    ELSE LET m == SelectSeq(o[k], LAMBDA e : Has(e, "label") /\ e.label \in labels)
         IN  IF Len(m) = 0 THEN <<>> ELSE <<m[1]>>

AddressPart(d, k) == IF d # <<>> /\ Truthy(d[1], k) THEN d[1][k] \o " " ELSE ""

\* mutant: zip and street change places
AddressStringZipFirst(d) ==
    AddressPart(d, "zip") \o AddressPart(d, "street")
        \o AddressPart(d, "city") \o AddressPart(d, "country")

AddressString(d) ==
    AddressPart(d, "street") \o AddressPart(d, "zip")
        \o AddressPart(d, "city") \o AddressPart(d, "country")

Normalize(p) ==
    LET we == FirstLabeled(p, "emails", {"Work"})
        he == FirstLabeled(p, "emails", {"Home"})
        mp == FirstLabeled(p, "phones", {"Main"})
        wp == FirstLabeled(p, "phones", {"Work"})
        mo == FirstLabeled(p, "phones", {"iPhone", "Mobile"})
        hp == FirstLabeled(p, "phones", {"Home"})
        wa == FirstLabeled(p, "addresses", {"Work"})
        ha == FirstLabeled(p, "addresses", {"Home"})
    IN  Opt("workEmail", we # <<>>, we[1].email)
        @@ Opt("homeEmail", he # <<>>, he[1].email)
        @@ Opt("mainPhone", mp # <<>>, mp[1].number)
        @@ Opt("workPhone", wp # <<>>, wp[1].number)
        @@ Opt("mobilePhone", mo # <<>>, mo[1].number)
        @@ Opt("homePhone", hp # <<>>, hp[1])
        @@ Opt("workAddressData", wa # <<>>, wa[1])
        @@ ("workAddress" :> AddressString(wa))
        @@ Opt("homeAddressData", ha # <<>>, ha[1])
        @@ ("homeAddress" :> AddressString(ha))

-----------------------------------------------------------------------------
(* The property set (handler lines 191-301)                                *)

Title(s) == [title |-> <<[text |-> [content |-> s]]>>]

RichText(s) == [rich_text |-> <<[text |-> [content |-> s]]>>]

SourceName(p) == IF p.source = "ios-contact" THEN "iOS Contact" ELSE p.source

\* mutant: the relation is spread unconditionally
OrganizationFieldAlways(p, o) ==
    "Organization" :> [relation |-> <<Opt("id", Has(o, "id"), o.id)>>]

\* ...(organization && { Organization: { relation: [{ id: organizationId }] } })
OrganizationField(p, o) ==
    Opt("Organization", Truthy(p, "organization"),
        [relation |-> <<Opt("id", Has(o, "id"), o.id)>>])

\* p: the validated payload, n: Normalize(p), o: the local organizationId
Properties(p, n, o) ==
    ("Last Name" :> Title(p.lastName))
    @@ Opt("First Name", Truthy(p, "firstName"), RichText(p.firstName))
    @@ Opt("Email (Work)", Truthy(n, "workEmail"), [email |-> n.workEmail])
    @@ Opt("Email (Home)", Truthy(n, "homeEmail"), [email |-> n.homeEmail])
    @@ Opt("Main", Truthy(n, "mainPhone"), [phone_number |-> n.mainPhone])
    @@ Opt("Work", Truthy(n, "workPhone"), [phone_number |-> n.workPhone])
    @@ Opt("Mobile", Truthy(n, "mobilePhone"), [phone_number |-> n.mobilePhone])
    @@ Opt("Home", Has(n, "homePhone"), [phone_number |-> n.homePhone.number])
    @@ Opt("Address (Work)", Has(n, "workAddressData"), RichText(n.workAddress))
    @@ Opt("Address (Home)", Has(n, "homeAddressData"), RichText(n.homeAddress))
    @@ Opt("iOS Notes", Truthy(p, "note"), RichText(p.note))
    @@ Opt("Website", Truthy(p, "website"), [url |-> p.website])
    @@ Opt("Job Title", Truthy(p, "jobTitle"), RichText(p.jobTitle))
    @@ OrganizationField(p, o)
    @@ ("Source" :> [select |-> [name |-> SourceName(p)]])

-----------------------------------------------------------------------------
(* The payload validator (zValidator schema, lines 53-98)                  *)

MalformedEmails == {"", "not-an-email"}

IsEmail(s) == s \notin MalformedEmails

EmailEntryOk(e) == Has(e, "email") /\ IsEmail(e.email) /\ Has(e, "label")

PhoneEntryOk(e) == Has(e, "label") /\ Has(e, "number")

ElementOk(p) ==
    /\ Has(p, "lastName")
    /\ Has(p, "emails") => \A i \in DOMAIN p.emails : EmailEntryOk(p.emails[i])
    /\ Has(p, "phones") => \A i \in DOMAIN p.phones : PhoneEntryOk(p.phones[i])
    /\ Has(p, "source") => p.source \in {"ios-contact"}

\* mutant: only the element the handler reads is validated
BodyOkFirstOnly(body) == Len(body) = 0 \/ ElementOk(body[1])

\* the schema is an array of objects: every element must parse
BodyOk(body) == \A i \in DOMAIN body : ElementOk(body[i])

\* the parsed element: source takes its default when absent
ParseElement(p) == p @@ ("source" :> "ios-contact")

ParseBody(body) == [i \in DOMAIN body |-> ParseElement(body[i])]

-----------------------------------------------------------------------------
(* The request gate (protect) and the routes                               *)

PASSWORD == "s3cret"

PublicPrefix == <<"/", "p", "u", "b", "l", "i", "c">>

IosContactPath == <<"/", "i", "o", "s", "-", "c", "o", "n", "t", "a", "c", "t">>

\* String.prototype.startsWith on pathnames kept as sequences of characters
StartsWith(s, prefix) ==
    Len(s) >= Len(prefix) /\ SubSeq(s, 1, Len(prefix)) = prefix

Json(body, status) == [status |-> status, json |-> body]

Text(body, status) == [status |-> status, text |-> body]

\* mutant: only a header that is present is compared
PasswordMismatchAbsentPasses(q) ==
    Has(q.headers, "Authorization") /\ q.headers.Authorization # PASSWORD

\* c.req.header("Authorization") !== c.env.PASSWORD
PasswordMismatch(q) ==
    ~(Has(q.headers, "Authorization") /\ q.headers.Authorization = PASSWORD)

\* the response of protect, or Empty when it calls next()
Protect(q) ==
    IF StartsWith(q.path, PublicPrefix) THEN Empty
    ELSE IF PasswordMismatch(q) THEN Json([error |-> "Unauthorized"], 401)
    ELSE Empty

\* app.get("/public", ...).post("/ios-contact", ...): exact pathname matches
Route(q) ==
    IF q.method = "GET" /\ q.path = PublicPrefix THEN "public"
    ELSE IF q.method = "POST" /\ q.path = IosContactPath THEN "ios-contact"
    ELSE "none"

-----------------------------------------------------------------------------
(* The error translator (app.onError)                                      *)

NotionErrorNames ==
    {"APIResponseError", "RequestTimeoutError", "UnknownHTTPResponseError"}

IsNotionClientError(e) == e.name \in NotionErrorNames

\* mutant: the unauthorized case is missing
OnErrorGeneric(e) == Json([message |-> "An error occurred"], 500)

OnError(e) ==
    IF IsNotionClientError(e) /\ e.code = "unauthorized"
    THEN Json([message |-> "Notion responded with an unauthorized error"], 401)
    ELSE Json([message |-> "An error occurred"], 500)

\* what a store call may throw: the store's unauthorized code, another store
\* code, and a failure that is no Notion client error at all
StoreErrors ==
    { [name |-> "APIResponseError", code |-> "unauthorized"],
      [name |-> "APIResponseError", code |-> "rate_limited"],
      [name |-> "TypeError"] }

-----------------------------------------------------------------------------
(* The store: two collections of pages queried by plain-text equality      *)

DatabaseIds == [organizations |-> "organizations-db", contacts |-> "contacts-db"]

\* the plain text of a title / rich_text property; "" when the page has none
PlainText(page, prop) ==
    IF ~Has(page.properties, prop) THEN ""
    ELSE LET v == page.properties[prop]
         IN  IF Has(v, "title") THEN v.title[1].text.content
             ELSE v.rich_text[1].text.content

Matches(page, filter) ==
    \A i \in DOMAIN filter : PlainText(page, filter[i].property) = filter[i].equals

Collection(db) == IF db = DatabaseIds.organizations THEN orgs ELSE contacts

\* notion.databases.query: the matching pages, in collection order
DatabasesQuery(db, filter) ==
    SelectSeq(Collection(db), LAMBDA page : Matches(page, filter))

\* notion.pages.create: the collections after the new page is appended
PagesCreate(db, id, properties) ==
    LET page == [id |-> id, properties |-> properties]
    IN  IF db = DatabaseIds.organizations
        THEN [orgs |-> Append(orgs, page), contacts |-> contacts]
        ELSE [orgs |-> orgs, contacts |-> Append(contacts, page)]

\* notion.pages.update: the given properties replace those of the page
PagesUpdate(coll, id, properties) ==
    [i \in DOMAIN coll |->
        IF coll[i].id = id
        THEN [coll[i] EXCEPT !.properties = properties @@ @]
        ELSE coll[i]]

Ids(pages) == [i \in DOMAIN pages |-> pages[i].id]

-----------------------------------------------------------------------------
(* The handler of POST /ios-contact between its awaits                     *)

\* if (organization) { ... }
HasOrganization(p) == Truthy(p, "organization")

\* the filter of the organization query
OrganizationFilter(p) == <<[property |-> "Name", equals |-> p.organization]>>

\* mutant: the first-name condition compares with the last name
ContactFilterLastTwice(p) ==
    << [property |-> "Last Name", equals |-> p.lastName],
       [property |-> "First Name", equals |-> p.lastName] >>

\* the filter of the contact query: last name and (firstName ?? "")
ContactFilter(p) ==
    << [property |-> "Last Name", equals |-> p.lastName],
       [property |-> "First Name",
        equals |-> IF Has(p, "firstName") THEN p.firstName ELSE ""] >>

\* mutant: the organization is created whatever the query returned
OrganizationMissingAlways(o) == TRUE

\* if (organizationId === undefined) create the organization
OrganizationMissing(o) == ~Has(o, "id")

\* if (retrieveResponse.results.length === 0) create the contact
ContactNotFound(results) == Len(results) = 0

\* mutant: the contact is created under the organizations database
ContactParentOrganizations == DatabaseIds.organizations

\* the parent of the created contact page
ContactParent == DatabaseIds.contacts

\* mutant: the last match is updated
UpdateTargetLast(results) == results[Len(results)]

\* page_id: retrieveResponse.results[0].id
UpdateTarget(results) == results[1]

CreatedResponse(p, id) ==
    Json([message |-> "Successfully created contact", pageId |-> id,
          lastName |-> p.lastName]
         @@ Opt("firstName", Has(p, "firstName"), p.firstName), 201)

UpdatedResponse(p, id) ==
    Json([message |-> "Successfully updated contact", pageId |-> id,
          lastName |-> p.lastName]
         @@ Opt("firstName", Has(p, "firstName"), p.firstName), 200)

NoLocals == [payload |-> Empty, norm |-> Empty, organizationId |-> Empty,
             properties |-> Empty, results |-> <<>>]

StoreCallPcs ==
    {"orgQuery", "orgCreate", "contactQuery", "contactCreate", "contactUpdate"}

\* the store call request r is about to issue
CallAt(r) ==
    LET l == loc[r]
    IN  CASE pc[r] = "orgQuery" ->
               [op |-> "databases.query",
                database_id |-> DatabaseIds.organizations,
                filter |-> OrganizationFilter(l.payload)]
          [] pc[r] = "orgCreate" ->
               [op |-> "pages.create",
                database_id |-> DatabaseIds.organizations,
                properties |-> ("Name" :> Title(l.payload.organization))]
          [] pc[r] = "contactQuery" ->
               [op |-> "databases.query",
                database_id |-> DatabaseIds.contacts,
                filter |-> ContactFilter(l.payload)]
          [] pc[r] = "contactCreate" ->
               [op |-> "pages.create",
                database_id |-> ContactParent,
                properties |-> l.properties]
          [] pc[r] = "contactUpdate" ->
               [op |-> "pages.update",
                page_id |-> UpdateTarget(l.results),
                properties |-> l.properties]

-----------------------------------------------------------------------------
(* Inputs                                                                  *)

Details ==
    [emails |-> <<[email |-> "w@x.io", label |-> "Work"]>>,
     phones |-> <<[label |-> "iPhone", number |-> "1"]>>,
     note |-> "met at WWDC"]

Payloads ==
    { Field("lastName", l) @@ Field("firstName", f) @@ Field("organization", o)
        @@ Details :
        l \in Maybe({"Doe"}), f \in Maybe({"", "Jane"}), o \in Maybe({"", "Acme"}) }

MalformedPayloads ==
    { [lastName |-> "Doe",
       emails |-> <<[email |-> "not-an-email", label |-> "Work"]>>],
      [lastName |-> "Doe", source |-> "android"] }

DefaultPayload ==
    [lastName |-> "Doe", firstName |-> "Jane", organization |-> "Acme"] @@ Details

Bodies ==
    {<<>>}
    \cup {<<p>> : p \in Payloads \cup MalformedPayloads}
    \cup {<<DefaultPayload, q>> :
            q \in {[lastName |-> "Roe"], [firstName |-> "Jane"]}}

Paths ==
    {PublicPrefix, PublicPrefix \o <<"/", "x">>, IosContactPath, <<"/", "p", "u", "b">>}

Headers == {Empty, [Authorization |-> "wrong"], [Authorization |-> PASSWORD]}

Inputs ==
    { [method |-> m, path |-> p, headers |-> h, body |-> <<DefaultPayload>>] :
        m \in {"GET", "POST"}, p \in Paths, h \in Headers }
    \cup
    { [method |-> "POST", path |-> IosContactPath,
       headers |-> [Authorization |-> PASSWORD], body |-> b] : b \in Bodies }

-----------------------------------------------------------------------------
(* Initial states                                                          *)

InitContact(i) ==
    [id |-> i,
     properties |-> ("Last Name" :> Title("Doe")) @@ ("First Name" :> RichText("Jane"))]

InitOrg(i) == [id |-> i, properties |-> ("Name" :> Title("Acme"))]

InitRequests ==
    /\ req = [r \in Requests |-> Empty]
    /\ pc = [r \in Requests |-> "idle"]
    /\ loc = [r \in Requests |-> NoLocals]
    /\ resp = [r \in Requests |-> Empty]
    /\ calls = [r \in Requests |-> <<>>]
    /\ after = [r \in Requests |-> {}]

Init ==
    /\ InitRequests
    /\ \E k \in 0..MaxInitContacts, n \in 0..1 :
          /\ contacts = [i \in 1..k |-> InitContact(i)]
          /\ orgs = [i \in 1..n |-> InitOrg(k + i)]
          /\ nextId = k + n + 1
    /\ nIn = Empty
    /\ nOut = Empty

-----------------------------------------------------------------------------
(* Arrival of a request: gate, route, validator and the handler up to its  *)
(* first await                                                             *)

Answer(response) == [pc |-> "done", loc |-> NoLocals, resp |-> response]

\* const [{ lastName, ... }] = c.req.valid("json") throws on an empty array
HandlerStart(valid) ==
    IF Len(valid) = 0 THEN Answer(OnError([name |-> "TypeError"]))
    ELSE LET p == valid[1]
             n == Normalize(p)
             l == [NoLocals EXCEPT !.payload = p, !.norm = n]
         IN  IF HasOrganization(p)
             THEN [pc |-> "orgQuery", loc |-> l, resp |-> Empty]
             ELSE [pc |-> "contactQuery",
                   loc |-> [l EXCEPT !.properties = Properties(p, n, Empty)],
                   resp |-> Empty]

\* a failed parse is answered 400 by the validator; the hook only logs
Validate(q) ==
    IF ~BodyOk(q.body) THEN Answer(Json([success |-> FALSE], 400))
    ELSE HandlerStart(ParseBody(q.body))

Pipeline(q) ==
    LET gate == Protect(q)
    IN  IF gate # Empty THEN Answer(gate)
        ELSE CASE Route(q) = "public" -> Answer(Text("Hello World", 200))
               [] Route(q) = "ios-contact" -> Validate(q)
               [] OTHER -> Answer(Text("404 Not Found", 404))

Dispatch(r) ==
    /\ pc[r] = "idle"
    /\ \A s \in Requests : s < r => pc[s] # "idle"
    /\ \E q \in Inputs :
          LET step == Pipeline(q)
          IN  /\ req' = [req EXCEPT ![r] = q]
              /\ pc' = [pc EXCEPT ![r] = step.pc]
              /\ loc' = [loc EXCEPT ![r] = step.loc]
              /\ resp' = [resp EXCEPT ![r] = step.resp]
    /\ after' = [after EXCEPT ![r] = {s \in Requests : pc[s] = "done"}]
    /\ UNCHANGED <<calls, orgs, contacts, nextId, nIn, nOut>>

-----------------------------------------------------------------------------
(* The store calls of the handler, each with the code that follows it up   *)
(* to the next await                                                       *)

Logged(r, result) == [calls EXCEPT ![r] = Append(@, CallAt(r) @@ result)]

OrgQuery(r) ==
    /\ pc[r] = "orgQuery"
    /\ LET l == loc[r]
           call == CallAt(r)
           results == DatabasesQuery(call.database_id, call.filter)
           oid == Opt("id", Len(results) > 0, results[1].id)
       IN  /\ calls' = Logged(r, [ok |-> TRUE, results |-> Ids(results)])
           /\ IF OrganizationMissing(oid)
              THEN /\ pc' = [pc EXCEPT ![r] = "orgCreate"]
                   /\ loc' = loc
              ELSE /\ pc' = [pc EXCEPT ![r] = "contactQuery"]
                   /\ loc' = [loc EXCEPT ![r] =
                                [l EXCEPT !.organizationId = oid,
                                          !.properties = Properties(l.payload, l.norm, oid)]]
    /\ UNCHANGED <<req, resp, after, orgs, contacts, nextId, nIn, nOut>>

OrgCreate(r) ==
    /\ pc[r] = "orgCreate"
    /\ LET l == loc[r]
           call == CallAt(r)
           store == PagesCreate(call.database_id, nextId, call.properties)
           oid == [id |-> nextId]
       IN  /\ calls' = Logged(r, [ok |-> TRUE, id |-> nextId])
           /\ orgs' = store.orgs
           /\ contacts' = store.contacts
           /\ loc' = [loc EXCEPT ![r] =
                        [l EXCEPT !.organizationId = oid,
                                  !.properties = Properties(l.payload, l.norm, oid)]]
    /\ nextId' = nextId + 1
    /\ pc' = [pc EXCEPT ![r] = "contactQuery"]
    /\ UNCHANGED <<req, resp, after, nIn, nOut>>

ContactQuery(r) ==
    /\ pc[r] = "contactQuery"
    /\ LET call == CallAt(r)
           results == Ids(DatabasesQuery(call.database_id, call.filter))
       IN  /\ calls' = Logged(r, [ok |-> TRUE, results |-> results])
           /\ loc' = [loc EXCEPT ![r].results = results]
           /\ pc' = [pc EXCEPT ![r] =
                       IF ContactNotFound(results) THEN "contactCreate"
                       ELSE "contactUpdate"]
    /\ UNCHANGED <<req, resp, after, orgs, contacts, nextId, nIn, nOut>>

ContactCreate(r) ==
    /\ pc[r] = "contactCreate"
    /\ LET call == CallAt(r)
           store == PagesCreate(call.database_id, nextId, call.properties)
       IN  /\ calls' = Logged(r, [ok |-> TRUE, id |-> nextId])
           /\ orgs' = store.orgs
           /\ contacts' = store.contacts
    /\ nextId' = nextId + 1
    /\ resp' = [resp EXCEPT ![r] = CreatedResponse(loc[r].payload, nextId)]
    /\ pc' = [pc EXCEPT ![r] = "done"]
    /\ UNCHANGED <<req, loc, after, nIn, nOut>>

ContactUpdate(r) ==
    /\ pc[r] = "contactUpdate"
    /\ LET call == CallAt(r)
       IN  /\ calls' = Logged(r, [ok |-> TRUE, id |-> call.page_id])
           /\ contacts' = PagesUpdate(contacts, call.page_id, call.properties)
           /\ resp' = [resp EXCEPT ![r] = UpdatedResponse(loc[r].payload, call.page_id)]
    /\ pc' = [pc EXCEPT ![r] = "done"]
    /\ UNCHANGED <<req, loc, after, orgs, nextId, nIn, nOut>>

\* the awaited call rejects: the error reaches app.onError, nothing else runs
StoreCallFails(r) ==
    /\ pc[r] \in StoreCallPcs
    /\ \E e \in StoreErrors :
          /\ calls' = Logged(r, [ok |-> FALSE, error |-> e])
          /\ resp' = [resp EXCEPT ![r] = OnError(e)]
    /\ pc' = [pc EXCEPT ![r] = "done"]
    /\ UNCHANGED <<req, loc, after, orgs, contacts, nextId, nIn, nOut>>

Next ==
    \E r \in Requests :
        \/ Dispatch(r)
        \/ OrgQuery(r)
        \/ OrgCreate(r)
        \/ ContactQuery(r)
        \/ ContactCreate(r)
        \/ ContactUpdate(r)
        \/ StoreCallFails(r)

Spec == Init /\ [][Next]_vars

-----------------------------------------------------------------------------
(* The normalizer on its own: the derived values of one validated payload  *)

EmailEntries ==
    {[email |-> e, label |-> l] : e \in {"w@x.io", "h@x.io"}, l \in {"Work", "Home", "Other"}}

PhoneEntries ==
    {[label |-> l, number |-> n] :
        l \in {"Main", "Work", "Home", "iPhone", "Mobile"}, n \in {"", "1", "2"}}

AddressEntries ==
    { Field("label", <<l>>) @@ Field("street", s) @@ Field("zip", z)
        @@ Field("city", c) @@ Field("country", k) :
        l \in {"Work", "Home"},
        s \in Maybe({"", "1 Main St"}), z \in Maybe({"75001"}),
        c \in Maybe({"Paris"}), k \in Maybe({"", "France"}) }
    \cup {[city |-> "Paris"]}

NormPayloads ==
    {[lastName |-> "Doe", emails |-> es] : es \in SeqsUpTo(EmailEntries, MaxEntries)}
    \cup {[lastName |-> "Doe", phones |-> ps] : ps \in SeqsUpTo(PhoneEntries, MaxEntries)}
    \cup {[lastName |-> "Doe", addresses |-> as] : as \in SeqsUpTo(AddressEntries, MaxEntries)}
    \cup {[lastName |-> "Doe"]}

InitNorm ==
    /\ InitRequests
    /\ contacts = <<>>
    /\ orgs = <<>>
    /\ nextId = 1
    /\ nIn \in NormPayloads
    /\ nOut = Empty

NormalizeStep ==
    /\ nOut = Empty
    /\ ElementOk(nIn)
    /\ LET p == ParseElement(nIn)
           n == Normalize(p)
       IN  nOut' = [norm |-> n, properties |-> Properties(p, n, Empty)]
    /\ UNCHANGED <<req, pc, loc, resp, calls, after, orgs, contacts, nextId, nIn>>

NextNorm == NormalizeStep

SpecNorm == InitNorm /\ [][NextNorm]_vars

-----------------------------------------------------------------------------
(* Vocabulary of the properties                                            *)

Arrived(r) == pc[r] # "idle"

\* request r reached the handler of POST /ios-contact with a first element
InHandler(r) == loc[r].payload # Empty

AllOk(r) == \A i \in DOMAIN calls[r] : calls[r][i].ok

IsOrgQuery(c) ==
    c.op = "databases.query" /\ c.database_id = DatabaseIds.organizations

IsOrgCreate(c) ==
    c.op = "pages.create" /\ c.database_id = DatabaseIds.organizations

IsContactQuery(c) ==
    c.op = "databases.query" /\ c.database_id = DatabaseIds.contacts

IsContactCreate(c) ==
    c.op = "pages.create" /\ c.database_id = DatabaseIds.contacts

IsUpdate(c) == c.op = "pages.update"

IsContactCall(c) == IsContactQuery(c) \/ IsContactCreate(c) \/ IsUpdate(c)

IsWrite(c) == c.op \in {"pages.create", "pages.update"}

CallsWhere(r, P(_)) == {i \in DOMAIN calls[r] : P(calls[r][i])}

\* r answered after a contact query, with no store call failing
Upserted(r) ==
    /\ pc[r] = "done"
    /\ AllOk(r)
    /\ CallsWhere(r, IsContactQuery) # {}

TheContactQuery(r) ==
    calls[r][CHOOSE i \in DOMAIN calls[r] : IsContactQuery(calls[r][i])]

NameOf(p) == <<p.lastName, IF Has(p, "firstName") THEN p.firstName ELSE "">>

ContactsNamed(name) ==
    {i \in DOMAIN contacts :
        /\ PlainText(contacts[i], "Last Name") = name[1]
        /\ PlainText(contacts[i], "First Name") = name[2]}

-----------------------------------------------------------------------------
(* C1: the gate                                                            *)

Unauthenticated(q) ==
    /\ ~StartsWith(q.path, PublicPrefix)
    /\ \/ ~Has(q.headers, "Authorization")
       \/ q.headers.Authorization # PASSWORD

\* C1: a request outside the public prefix whose Authorization header is
\* absent or differs from the secret is answered 401 {"error":"Unauthorized"}
\* and never issues a store call.
C1_GateRejects ==
    \A r \in Requests :
        Arrived(r) /\ Unauthenticated(req[r]) =>
            /\ pc[r] = "done"
            /\ resp[r] = [status |-> 401, json |-> [error |-> "Unauthorized"]]
            /\ calls[r] = <<>>

\* a POST /ios-contact with a valid body and no Authorization header has been
\* answered while another request went on to write to the store
C1_Witness ==
    \E r, s \in Requests :
        /\ pc[r] = "done"
        /\ req[r].method = "POST"
        /\ req[r].path = IosContactPath
        /\ ~Has(req[r].headers, "Authorization")
        /\ BodyOk(req[r].body)
        /\ pc[s] = "done" /\ CallsWhere(s, IsWrite) # {}

-----------------------------------------------------------------------------
(* C2: the validator                                                       *)

AuthorizedIosContact(q) ==
    /\ q.method = "POST"
    /\ q.path = IosContactPath
    /\ Has(q.headers, "Authorization")
    /\ q.headers.Authorization = PASSWORD

MissesLastName(body) == \E i \in DOMAIN body : ~Has(body[i], "lastName")

\* C2: an authorized POST /ios-contact whose body holds an element without
\* lastName is answered with the validation failure (400) and never reaches
\* the handler: no locals, no store call.
C2_MissingLastNameRejected ==
    \A r \in Requests :
        Arrived(r) /\ AuthorizedIosContact(req[r]) /\ MissesLastName(req[r].body) =>
            /\ pc[r] = "done"
            /\ resp[r].status = 400
            /\ resp[r].json.success = FALSE
            /\ ~InHandler(r)
            /\ calls[r] = <<>>

\* the element without lastName is the second one, behind a valid first
C2_Witness ==
    \E r \in Requests :
        /\ pc[r] = "done"
        /\ AuthorizedIosContact(req[r])
        /\ Len(req[r].body) = 2
        /\ ElementOk(req[r].body[1])
        /\ ~Has(req[r].body[2], "lastName")

-----------------------------------------------------------------------------
(* C3: the upsert decision                                                 *)

ContactWrites(r) ==
    {i \in DOMAIN calls[r] : IsContactCreate(calls[r][i]) \/ IsUpdate(calls[r][i])}

\* C3: a request that reached the contact query and had no failing store call
\* queried on (lastName, firstName or "") and issued exactly one write: on zero
\* results a create in the contacts collection answered 201 with the created
\* page's id, otherwise an update of the first result answered 200 with that id.
C3_OneWriteChosenByQuery ==
    \A r \in Requests :
        Upserted(r) =>
            LET q == TheContactQuery(r)
                p == loc[r].payload
                w == calls[r][Len(calls[r])]
            IN  /\ Cardinality(CallsWhere(r, IsContactQuery)) = 1
                /\ q.filter[1] = [property |-> "Last Name", equals |-> NameOf(p)[1]]
                /\ q.filter[2] = [property |-> "First Name", equals |-> NameOf(p)[2]]
                /\ Cardinality(CallsWhere(r, IsWrite) \ CallsWhere(r, IsOrgCreate)) = 1
                /\ ContactWrites(r) = {Len(calls[r])}
                /\ resp[r].json.lastName = p.lastName
                /\ IF q.results = <<>>
                   THEN /\ IsContactCreate(w)
                        /\ resp[r].status = 201
                        /\ resp[r].json.message = "Successfully created contact"
                        /\ resp[r].json.pageId = w.id
                        /\ \E i \in DOMAIN contacts : contacts[i].id = w.id
                   ELSE /\ IsUpdate(w)
                        /\ w.page_id = q.results[1]
                        /\ resp[r].status = 200
                        /\ resp[r].json.message = "Successfully updated contact"
                        /\ resp[r].json.pageId = q.results[1]

\* one request created (no match) and another updated the first of two matches
C3_Witness ==
    \E r, s \in Requests :
        /\ Upserted(r) /\ TheContactQuery(r).results = <<>>
        /\ resp[r].status = 201
        /\ Upserted(s) /\ Len(TheContactQuery(s).results) >= 2
        /\ resp[s].status = 200

-----------------------------------------------------------------------------
(* C4: the organization resolver                                           *)

\* the calls of r resolve the organization named in its payload before any
\* contact call, creating one only after a query without a match
OrganizationResolved(r) ==
    LET cs == calls[r]
        name == loc[r].payload.organization
        found == cs[1].ok /\ cs[1].results # <<>>
        created == Len(cs) >= 2 /\ IsOrgCreate(cs[2]) /\ cs[2].ok
    IN  /\ pc[r] = "done" => cs # <<>>
        /\ cs # <<>> =>
              /\ IsOrgQuery(cs[1])
              /\ cs[1].filter = <<[property |-> "Name", equals |-> name]>>
        /\ \A i \in DOMAIN cs : i > 1 => ~IsOrgQuery(cs[i])
        /\ \A i \in DOMAIN cs :
              IsOrgCreate(cs[i]) =>
                  /\ i = 2
                  /\ cs[1].ok /\ cs[1].results = <<>>
                  /\ cs[i].properties = ("Name" :> Title(name))
        /\ \A i \in DOMAIN cs :
              IsContactCall(cs[i]) =>
                  /\ found \/ created
                  /\ i > (IF found THEN 1 ELSE 2)
                  /\ i > 1
        /\ \A i \in DOMAIN cs :
              IsContactCreate(cs[i]) \/ IsUpdate(cs[i]) =>
                  /\ Has(cs[i].properties, "Organization")
                  /\ cs[i].properties["Organization"] =
                        [relation |->
                            <<[id |-> IF found THEN cs[1].results[1] ELSE cs[2].id]>>]

\* C4 as stated: whenever the payload carries an organization the request
\* first queries the organizations collection, creates one only without a
\* match, relates the contact to the resolved id, all before the contact calls.
C4_Original ==
    \A r \in Requests :
        InHandler(r) /\ Has(loc[r].payload, "organization") => OrganizationResolved(r)

\* C4 amended: the same for every payload whose organization is a non-empty
\* string.
C4_OrganizationResolved ==
    \A r \in Requests :
        InHandler(r) /\ Truthy(loc[r].payload, "organization") => OrganizationResolved(r)

\* one request created the organization it did not find, another found the
\* organization, and both wrote their contact
C4_Witness ==
    \E r, s \in Requests :
        /\ Upserted(r) /\ Truthy(loc[r].payload, "organization")
        /\ calls[r][1].results = <<>> /\ IsOrgCreate(calls[r][2])
        /\ Upserted(s) /\ Truthy(loc[s].payload, "organization")
        /\ calls[s][1].results # <<>>

-----------------------------------------------------------------------------
(* C5: no organization                                                     *)

\* C5: a payload without organization yields no organization identifier, no
\* Organization field in the property set that is created or updated, and no
\* query or create against the organizations collection.
C5_NoOrganizationNoRelation ==
    \A r \in Requests :
        InHandler(r) /\ ~Has(loc[r].payload, "organization") =>
            /\ loc[r].organizationId = Empty
            /\ ~Has(loc[r].properties, "Organization")
            /\ \A i \in DOMAIN calls[r] :
                  /\ ~IsOrgQuery(calls[r][i])
                  /\ ~IsOrgCreate(calls[r][i])
                  /\ IsWrite(calls[r][i]) => ~Has(calls[r][i].properties, "Organization")

\* payloads without organization have both created and updated a contact
C5_Witness ==
    \E r, s \in Requests :
        /\ ~Has(loc[r].payload, "organization") /\ ~Has(loc[s].payload, "organization")
        /\ Upserted(r) /\ resp[r].status = 201
        /\ Upserted(s) /\ resp[s].status = 200

-----------------------------------------------------------------------------
(* C6: store failures                                                      *)

\* C6: a failed store call is the last call of its request, which is answered
\* 401 with the unauthorized message when the failure carries the store's
\* unauthorized code and 500 with the generic message otherwise, never 200/201.
C6_FailureEndsRequest ==
    \A r \in Requests :
        \A i \in DOMAIN calls[r] :
            ~calls[r][i].ok =>
                LET e == calls[r][i].error
                IN  /\ i = Len(calls[r])
                    /\ pc[r] = "done"
                    /\ resp[r].status \notin {200, 201}
                    /\ resp[r] =
                          IF Has(e, "code") /\ e.code = "unauthorized"
                          THEN [status |-> 401,
                                json |-> [message |->
                                    "Notion responded with an unauthorized error"]]
                          ELSE [status |-> 500,
                                json |-> [message |-> "An error occurred"]]

\* an update failed with the unauthorized code and an organization create
\* failed with an error that is no store error
C6_Witness ==
    \E r, s \in Requests :
        /\ calls[r] # <<>> /\ calls[s] # <<>>
        /\ LET c == calls[r][Len(calls[r])]
               d == calls[s][Len(calls[s])]
           IN  /\ ~c.ok /\ IsUpdate(c) /\ Has(c.error, "code")
               /\ c.error.code = "unauthorized"
               /\ resp[r].status = 401
               /\ ~d.ok /\ IsOrgCreate(d) /\ ~Has(d.error, "code")
               /\ resp[s].status = 500

-----------------------------------------------------------------------------
(* C7: re-submission                                                       *)

\* b carries the request of a, arrived after a was answered, a found no
\* contact of that name, and no store call of either failed
Resubmitted(a, b) ==
    /\ a # b
    /\ a \in after[b]
    /\ req[a] = req[b]
    /\ Upserted(a) /\ Upserted(b)
    /\ TheContactQuery(a).results = <<>>

\* C7 as stated: the re-submission of an identical payload, after a first
\* submission that found no match, creates a second contact record.
C7_Original ==
    \A a, b \in Requests :
        Resubmitted(a, b) =>
            /\ resp[b].status = 201
            /\ CallsWhere(b, IsContactCreate) # {}

\* C7 amended: when neither submission has a failing store call, the
\* re-submission finds the record the first submission created, updates the
\* first match (200) and creates no contact record.
C7_ResubmissionUpdates ==
    \A a, b \in Requests :
        Resubmitted(a, b) =>
            LET q == TheContactQuery(b)
            IN  /\ resp[a].status = 201
                /\ \E i \in DOMAIN q.results : q.results[i] = resp[a].json.pageId
                /\ resp[b].status = 200
                /\ resp[b].json.message = "Successfully updated contact"
                /\ resp[b].json.pageId = q.results[1]
                /\ CallsWhere(b, IsContactCreate) = {}

\* the payload was submitted twice, one request after the other, against a
\* store that held no contact at all
C7_Witness ==
    \E a, b \in Requests :
        /\ Resubmitted(a, b)
        /\ Len(contacts) = 1
        /\ resp[b].json.pageId = resp[a].json.pageId

-----------------------------------------------------------------------------
(* C10: the read-then-write race                                           *)

\* a and b both queried the same name, both got zero results, neither had a
\* failing store call
Raced(a, b) ==
    /\ a # b
    /\ Upserted(a) /\ Upserted(b)
    /\ TheContactQuery(a).filter = TheContactQuery(b).filter
    /\ TheContactQuery(a).results = <<>>
    /\ TheContactQuery(b).results = <<>>

\* C10: two requests for the same (last name, first name) whose contact
\* queries both returned zero results both create: each is answered 201 with
\* its own page, and the store holds two contact records of that name.
C10_BothCreate ==
    \A a, b \in Requests :
        Raced(a, b) =>
            /\ resp[a].status = 201 /\ resp[b].status = 201
            /\ resp[a].json.pageId # resp[b].json.pageId
            /\ \A r \in {a, b} :
                  \E i \in ContactsNamed(NameOf(loc[r].payload)) :
                      contacts[i].id = resp[r].json.pageId
            /\ Cardinality(ContactsNamed(NameOf(loc[a].payload))) >= 2

\* the interleaving: two concurrent requests against a store without contacts
\* have left it with exactly two records, both of the same name
C10_Witness ==
    \E a, b \in Requests :
        /\ Raced(a, b)
        /\ a \notin after[b] /\ b \notin after[a]
        /\ Len(contacts) = 2
        /\ ContactsNamed(NameOf(loc[a].payload)) = {1, 2}

-----------------------------------------------------------------------------
(* C8, C9: the normalizer                                                  *)

Normalized == nOut # Empty

Collected(k) == IF Has(nIn, k) THEN nIn[k] ELSE <<>>

LabelMatches(xs, labels) ==
    {i \in DOMAIN xs : Has(xs[i], "label") /\ xs[i].label \in labels}

Lowest(S) == CHOOSE i \in S : \A j \in S : i <= j

\* the derived value under key is the field of the lowest-index entry of the
\* collection whose label is one of labels, and absent when there is none
PicksFirst(key, collection, labels, field) ==
    LET xs == Collected(collection)
        m == LabelMatches(xs, labels)
    IN  IF m = {} THEN ~Has(nOut.norm, key)
        ELSE Has(nOut.norm, key) /\ nOut.norm[key] = xs[Lowest(m)][field]

\* C8: each labeled selection (email Work/Home, phone Main/Work/Home, mobile =
\* iPhone or Mobile) is the value of the lowest-index matching entry, absent
\* without a match; the property set carries the selected e-mail addresses.
C8_FirstMatchWins ==
    Normalized =>
        /\ PicksFirst("workEmail", "emails", {"Work"}, "email")
        /\ PicksFirst("homeEmail", "emails", {"Home"}, "email")
        /\ PicksFirst("mainPhone", "phones", {"Main"}, "number")
        /\ PicksFirst("workPhone", "phones", {"Work"}, "number")
        /\ PicksFirst("mobilePhone", "phones", {"iPhone", "Mobile"}, "number")
        /\ LET m == LabelMatches(Collected("phones"), {"Home"})
           IN  IF m = {} THEN ~Has(nOut.norm, "homePhone")
               ELSE /\ Has(nOut.norm, "homePhone")
                    /\ nOut.norm.homePhone.number = Collected("phones")[Lowest(m)].number
        /\ \A l \in {"Work", "Home"} :
              LET m == LabelMatches(Collected("emails"), {l})
                  k == IF l = "Work" THEN "Email (Work)" ELSE "Email (Home)"
              IN  IF m = {} THEN ~Has(nOut.properties, k)
                  ELSE /\ Has(nOut.properties, k)
                       /\ nOut.properties[k].email = Collected("emails")[Lowest(m)].email

\* phones labeled iPhone then Mobile: the mobile number is the iPhone entry's
C8_Witness ==
    /\ Normalized
    /\ Has(nIn, "phones")
    /\ Len(nIn.phones) = 2
    /\ nIn.phones[1] = [label |-> "iPhone", number |-> "1"]
    /\ nIn.phones[2] = [label |-> "Mobile", number |-> "2"]
    /\ nOut.norm.mobilePhone = "1"

\* street, zip, city, country of d, each one that Emitted(d, k) followed by a space
Joined(d, Emitted(_, _)) ==
    LET part(k) == IF Emitted(d, k) THEN d[k] \o " " ELSE ""
    IN  part("street") \o part("zip") \o part("city") \o part("country")

AddressIs(label, key, dataKey, prop, Emitted(_, _)) ==
    LET xs == Collected("addresses")
        m == LabelMatches(xs, {label})
    IN  IF m = {}
        THEN /\ nOut.norm[key] = ""
             /\ ~Has(nOut.norm, dataKey)
             /\ ~Has(nOut.properties, prop)
        ELSE /\ nOut.norm[dataKey] = xs[Lowest(m)]
             /\ nOut.norm[key] = Joined(xs[Lowest(m)], Emitted)
             /\ nOut.properties[prop].rich_text[1].text.content = nOut.norm[key]

\* C9 as stated: the display string of the first Work / Home address is its
\* street, zip, city, country, each PRESENT sub-field followed by one space.
C9_Original ==
    Normalized =>
        /\ AddressIs("Work", "workAddress", "workAddressData", "Address (Work)", Has)
        /\ AddressIs("Home", "homeAddress", "homeAddressData", "Address (Home)", Has)

\* C9 amended: each sub-field that is present and not the empty string is
\* followed by one space; an absent or empty sub-field emits nothing. With
\* only city and country given the string is "<city> <country> ".
C9_AddressString ==
    Normalized =>
        /\ AddressIs("Work", "workAddress", "workAddressData", "Address (Work)", Truthy)
        /\ AddressIs("Home", "homeAddress", "homeAddressData", "Address (Home)", Truthy)
        /\ \A i \in DOMAIN Collected("addresses") :
              nIn.addresses[i] = [label |-> "Work", city |-> "Paris", country |-> "France"]
              /\ LabelMatches(nIn.addresses, {"Work"}) = {i}
                  => nOut.norm.workAddress = "Paris France "

\* the second address is the first labeled Home; it has only city and country
C9_Witness ==
    /\ Normalized
    /\ Has(nIn, "addresses")
    /\ Len(nIn.addresses) = 2
    /\ nIn.addresses[1] = [label |-> "Work", street |-> "1 Main St", zip |-> "75001",
                           city |-> "Paris", country |-> "France"]
    /\ nIn.addresses[2] = [label |-> "Home", city |-> "Paris", country |-> "France"]
    /\ nOut.norm.workAddress = "1 Main St 75001 Paris France "
    /\ nOut.norm.homeAddress = "Paris France "

====
